---- MODULE Spec2Model ----
(***************************************************************************)
(* A model of s3_analyzer.py: the per-bucket insight collector             *)
(* (get_s3_insights), its helpers (format_bytes, get_bucket_storage_info,  *)
(* get_bucket_cost, analyze_objects) and the two report generators.        *)
(*                                                                         *)
(* Python values are modelled as follows.                                  *)
(*   - None / a missing dict key is the empty tuple <<>>, a present value  *)
(*     v is the one-element tuple <<v>> (Some(v)).                         *)
(*   - A byte count is its little-endian base-1024 digit sequence, so that *)
(*     terabyte-sized values fit TLC's 32-bit integers:                     *)
(*     <<d0, d1, d2>> is d0 + 1024*d1 + 1024^2*d2.                         *)
(*   - A timestamp is a whole number of hours; timedelta.days is the       *)
(*     floor of the difference divided by 24.                              *)
(*   - An object key is a sequence of one-character strings.               *)
(*   - An exception is a record [kind, Code]: kind "ClientError" is        *)
(*     botocore's ClientError with its error code, kind "Exception" is any *)
(*     other Exception (a connection error, an IndexError on a response    *)
(*     without the expected data, ...).                                    *)
(***************************************************************************)
EXTENDS Integers, Sequences, FiniteSets, TLC

\* ------------------------------------------------------------- bounds

\* Longest bucket enumeration list_buckets returns.
MaxBuckets == 2
\* Longest byte count, in base-1024 digits (6 digits reach 1024 TB and more).
MaxDigits == 6
\* The sample cap of analyze_objects: the default of its sample_size parameter
\* (1000, line 110), scaled down so that listings below, at and above the cap
\* are all within reach.
sample_size == 3
\* Most pages of a listing, and most objects on one page.
MaxPages == 2
MaxPageLen == 2
\* Longest object key of the key sweep, in characters.
MaxKeyLen == 3

\* ------------------------------------------------------------ helpers

None == <<>>
Some(v) == <<v>>

Min(a, b) == IF a <= b THEN a ELSE b

\* ------------------------------------------------------- format_bytes

\* power = 1024 (line 19)
power == 1024

\* power_labels (line 20); key n of the dict is element n + 1 here.
power_labels == <<"B", "KB", "MB", "GB", "TB">>

\* byte_count >= power, for byte_count = ds / 1024^n (the while test of line 21):
\* some digit above position n is non-zero.
GePower(ds, n) == \E i \in (n + 2)..Len(ds) : ds[i] # 0

\* The while loop of lines 21-22: the number of divisions by power.
RECURSIVE Scale(_, _)
Scale(ds, n) ==
  IF GePower(ds, n) /\ n < Len(power_labels) - 1 THEN Scale(ds, n + 1) ELSE n

\* The integer part of ds / 1024^n.
RECURSIVE IntPart(_, _)
IntPart(ds, n) ==
  IF n >= Len(ds) THEN 0 ELSE ds[n + 1] + power * IntPart(ds, n + 1)

\* 100 * (fractional part of ds / 1024^n), digit by digit from the least
\* significant one: <<carry into the units, remainder digits (little-endian)>>.
RECURSIVE Times100(_, _, _, _)
Times100(ds, n, i, acc) ==
  IF i > n \/ i > Len(ds) THEN acc
  ELSE LET t == 100 * ds[i] + acc[1]
       IN Times100(ds, n, i + 1, <<t \div power, Append(acc[2], t % power)>>)

\* The remainder digits r (of a fraction r / 1024^Len(r)) against one half:
\* 1 above, 0 equal, -1 below.
CmpHalf(r) ==
  IF r = <<>> THEN -1
  ELSE LET top == r[Len(r)]
           rest == \E i \in 1..(Len(r) - 1) : r[i] # 0
       IN IF top > power \div 2 \/ (top = power \div 2 /\ rest) THEN 1
          ELSE IF top = power \div 2 THEN 0 ELSE -1

\* f"{byte_count:.2f}" of ds / 1024^n: [units, cents], correctly rounded,
\* ties to even (the float is exact: division by a power of two).
Fixed2(ds, n) ==
  LET m == Times100(ds, n, 1, <<0, <<>>>>)
      c == m[1]
      h == CmpHalf(m[2])
      up == h = 1 \/ (h = 0 /\ c % 2 = 1)
      cents == IF up THEN c + 1 ELSE c
  IN IF cents = 100 THEN [units |-> IntPart(ds, n) + 1, cents |-> 0]
     ELSE [units |-> IntPart(ds, n), cents |-> cents]

\* The text of a [units, cents] pair: "12.05".
Text2(f) ==
  ToString(f.units) \o "." \o (IF f.cents < 10 THEN "0" ELSE "") \o ToString(f.cents)

\* The numeric part and the unit format_bytes renders for a byte count.
format_parts(byte_count) ==
  LET n == Scale(byte_count, 0)
  IN [num |-> Fixed2(byte_count, n), unit |-> power_labels[n + 1]]

\* format_bytes (lines 17-23).
format_bytes(byte_count) ==
  IF byte_count = None THEN "0.0 B"
  ELSE LET p == format_parts(byte_count)
       IN Text2(p.num) \o " " \o p.unit

\* ------------------------------------------- get_bucket_storage_info

\* total_size_bytes = 0 (line 33) as a byte count.
ZeroBytes == <<0>>

\* Mutant of get_bucket_storage_info: the default of line 33 is None instead
\* of 0.
get_bucket_storage_info_NoneDefault(resp) ==
  IF resp.kind = "ClientError" THEN [raised |-> FALSE, value |-> "N/A"]
  ELSE IF resp.kind = "Exception" THEN [raised |-> TRUE, value |-> ""]
  ELSE LET total_size_bytes ==
             IF resp.Values # <<>> THEN resp.Values[1] ELSE None
       IN [raised |-> FALSE, value |-> format_bytes(total_size_bytes)]

\* get_bucket_storage_info (lines 27-38) on the outcome of get_metric_data:
\* resp.kind "ok" carries MetricDataResults[0]['Values'], "ClientError" and
\* "Exception" are the exception the call raised. The result is the returned
\* string, or the exception that leaves the function (only ClientError is
\* caught, line 36).
get_bucket_storage_info(resp) ==
  IF resp.kind = "ClientError" THEN [raised |-> FALSE, value |-> "N/A"]
  ELSE IF resp.kind = "Exception" THEN [raised |-> TRUE, value |-> ""]
  ELSE LET total_size_bytes ==
             IF resp.Values # <<>> THEN resp.Values[1] ELSE ZeroBytes
       IN [raised |-> FALSE, value |-> format_bytes(total_size_bytes)]

\* ----------------------------------------------------- get_bucket_cost

\* f"${float(amount):.2f}" (line 50) of an amount given in 1/10000 dollars
\* (no amount of CostAmounts lies on a rounding tie).
format_cost(amount) ==
  LET c == (amount + 50) \div 100
  IN "$" \o Text2([units |-> c \div 100, cents |-> c % 100])

\* Mutant of get_bucket_cost: the except clause of line 51 is missing.
get_bucket_cost_NoCatch(resp) ==
  IF resp.kind \in {"ClientError", "Exception"} \/ resp.ResultsByTime = <<>>
  THEN [raised |-> TRUE, value |-> ""]
  ELSE [raised |-> FALSE, value |-> format_cost(resp.ResultsByTime[1])]

\* get_bucket_cost (lines 40-56) on the outcome of get_cost_and_usage:
\* resp.kind "ok" carries ResultsByTime as a sequence of amounts; an empty
\* one makes response['ResultsByTime'][0] raise IndexError (line 49).
get_bucket_cost(resp) ==
  IF resp.kind = "ClientError" THEN [raised |-> FALSE, value |-> "N/A"]
  ELSE IF resp.kind = "Exception" \/ resp.ResultsByTime = <<>>
       THEN [raised |-> TRUE, value |-> ""]
  ELSE [raised |-> FALSE, value |-> format_cost(resp.ResultsByTime[1])]

\* ----------------------------------------------------- analyze_objects

\* str.lower() on one character of the keys' alphabet.
LowerChar(c) ==
  CASE c = "A" -> "a" [] c = "T" -> "t" [] c = "X" -> "x" [] OTHER -> c

\* s.lower()
Lower(s) == [i \in 1..Len(s) |-> LowerChar(s[i])]

\* sep in s
Contains(s, sep) == \E i \in 1..Len(s) : s[i] = sep

\* The index of the first sep of s (s contains sep).
FirstIndex(s, sep) == CHOOSE i \in 1..Len(s) : s[i] = sep /\ \A j \in 1..(i - 1) : s[j] # sep

\* The index of the last sep of s, 0 when s has none.
LastIndex(s, sep) ==
  IF Contains(s, sep)
  THEN CHOOSE i \in 1..Len(s) : s[i] = sep /\ \A j \in (i + 1)..Len(s) : s[j] # sep
  ELSE 0

\* s.split(sep)[0]
SplitFirst(s, sep) ==
  IF Contains(s, sep) THEN SubSeq(s, 1, FirstIndex(s, sep) - 1) ELSE s

\* s.split(sep)[-1]
SplitLast(s, sep) == SubSeq(s, LastIndex(s, sep) + 1, Len(s))

\* os.path.basename(key): what follows the last "/".
basename(key) == SubSeq(key, LastIndex(key, "/") + 1, Len(key))

\* doc_types[e] = doc_types.get(e, 0) + 1 (line 123)
Tally(doc_types, e) ==
  IF e \in DOMAIN doc_types THEN [doc_types EXCEPT ![e] = @ + 1]
  ELSE doc_types @@ (e :> 1)

\* The locals of analyze_objects after line 112; inspected is the sequence
\* of objects the loop body has run on.
ScanStart ==
  [first_record_date |-> None, last_record_date |-> None,
   folder_structure |-> {}, doc_types |-> <<>>, obj_count |-> 0,
   inspected |-> <<>>]

\* Mutant of ScanObject: line 122 tests the whole key for a "." instead of
\* its base name.
ScanObject_DotInKey(st, obj) ==
  LET mod_time == obj.LastModified
      key == obj.Key
  IN [first_record_date |->
        IF st.first_record_date = None \/ mod_time < st.first_record_date[1]
        THEN Some(mod_time) ELSE st.first_record_date,
      last_record_date |->
        IF st.last_record_date = None \/ mod_time > st.last_record_date[1]
        THEN Some(mod_time) ELSE st.last_record_date,
      folder_structure |->
        IF Contains(key, "/")
        THEN st.folder_structure \cup {SplitFirst(key, "/")}
        ELSE st.folder_structure,
      doc_types |->
        IF Contains(key, ".")
        THEN Tally(st.doc_types, Lower(SplitLast(key, ".")))
        ELSE st.doc_types,
      obj_count |-> st.obj_count + 1,
      inspected |-> Append(st.inspected, obj)]

\* One run of the inner loop body (lines 117-123) on obj.
ScanObject(st, obj) ==
  LET mod_time == obj.LastModified
      key == obj.Key
  IN [first_record_date |->
        IF st.first_record_date = None \/ mod_time < st.first_record_date[1]
        THEN Some(mod_time) ELSE st.first_record_date,
      last_record_date |->
        IF st.last_record_date = None \/ mod_time > st.last_record_date[1]
        THEN Some(mod_time) ELSE st.last_record_date,
      folder_structure |->
        IF Contains(key, "/")
        THEN st.folder_structure \cup {SplitFirst(key, "/")}
        ELSE st.folder_structure,
      doc_types |->
        IF Contains(basename(key), ".")
        THEN Tally(st.doc_types, Lower(SplitLast(key, ".")))
        ELSE st.doc_types,
      obj_count |-> st.obj_count + 1,
      inspected |-> Append(st.inspected, obj)]

\* Mutant of ScanContents: line 124 tests obj_count > sample_size.
RECURSIVE ScanContents_OffByOne(_, _, _)
ScanContents_OffByOne(st, contents, i) ==
  IF i > Len(contents) THEN st
  ELSE LET st1 == ScanObject(st, contents[i])
       IN IF st1.obj_count > sample_size THEN st1
          ELSE ScanContents_OffByOne(st1, contents, i + 1)

\* The inner loop (lines 116-124) over page['Contents'] from its i-th object:
\* it leaves the page as soon as obj_count reaches sample_size.
RECURSIVE ScanContents(_, _, _)
ScanContents(st, contents, i) ==
  IF i > Len(contents) THEN st
  ELSE LET st1 == ScanObject(st, contents[i])
       IN IF st1.obj_count >= sample_size THEN st1
          ELSE ScanContents(st1, contents, i + 1)

\* What analyze_objects hands back: the tuple of line 129 (or of line 128
\* with error "ClientError"), or the exception that leaves it (raised).
\* The folder list is kept as the set it is built from.
ScanResult(st, raised, error) ==
  [raised |-> raised, error |-> error,
   first_record_date |-> st.first_record_date,
   last_record_date |-> st.last_record_date,
   folder_structure |-> st.folder_structure,
   doc_types |-> st.doc_types,
   inspected |-> st.inspected]

\* Mutant of ScanPages: the handler of line 126 returns the locals as they
\* stand instead of the empty summary.
RECURSIVE ScanPages_KeepPartial(_, _, _)
ScanPages_KeepPartial(st, pages, p) ==
  IF p > Len(pages) THEN ScanResult(st, FALSE, "none")
  ELSE LET page == pages[p]
       IN CASE page.kind = "ClientError" -> ScanResult(st, FALSE, "ClientError")
            [] page.kind = "Exception" -> ScanResult(st, TRUE, "Exception")
            [] page.kind = "NoContents" -> ScanPages_KeepPartial(st, pages, p + 1)
            [] OTHER ->
                 LET st1 == ScanContents(st, page.Contents, 1)
                 IN IF st1.obj_count >= sample_size
                    THEN ScanResult(st1, FALSE, "none")
                    ELSE ScanPages_KeepPartial(st1, pages, p + 1)

\* The outer loop (lines 114-125) from the p-th page of the paginator. A page
\* is [kind, Contents]: "Contents" has the key, "NoContents" lacks it, and
\* "ClientError" / "Exception" is the exception fetching that page raises.
RECURSIVE ScanPages(_, _, _)
ScanPages(st, pages, p) ==
  IF p > Len(pages) THEN ScanResult(st, FALSE, "none")
  ELSE LET page == pages[p]
       IN CASE page.kind = "ClientError" ->
                 ScanResult([ScanStart EXCEPT !.inspected = st.inspected],
                            FALSE, "ClientError")
            [] page.kind = "Exception" -> ScanResult(st, TRUE, "Exception")
            [] page.kind = "NoContents" -> ScanPages(st, pages, p + 1)
            [] OTHER ->
                 LET st1 == ScanContents(st, page.Contents, 1)
                 IN IF st1.obj_count >= sample_size
                    THEN ScanResult(st1, FALSE, "none")
                    ELSE ScanPages(st1, pages, p + 1)

\* analyze_objects (lines 110-129) on the pages the paginator yields.
analyze_objects(pages) == ScanPages(ScanStart, pages, 1)

\* Mutant of is_working_bucket: line 90 tests .days <= 30.
is_working_bucket_Inclusive(last_record_date, now) ==
  IF last_record_date # None /\ ((now - last_record_date[1]) \div 24) <= 30
  THEN "Yes" ELSE "No"

\* is_working (line 90): timedelta.days of now - last_record_date under 30.
is_working_bucket(last_record_date, now) ==
  IF last_record_date # None /\ ((now - last_record_date[1]) \div 24) < 30
  THEN "Yes" ELSE "No"

\* ------------------------------------------------- get_s3_insights: data

\* os.getenv('AWS_PROFILE', 'default') (line 61)
aws_profile == "default"

\* The account's i-th bucket: the Name and CreationDate list_buckets reports,
\* and the location and versioning configuration the bucket has (odd buckets
\* sit in the default location, which the API reports as None; versioning is
\* never set, "Enabled" or "Suspended" in turn).
Bucket(i) ==
  [Name |-> "bucket-" \o ToString(i),
   CreationDate |-> [year |-> 2024, month |-> i, day |-> 15, hour |-> 13],
   LocationConstraint |-> IF i % 2 = 1 THEN None ELSE Some("eu-west-1"),
   Status |-> CASE i % 3 = 1 -> None
                [] i % 3 = 2 -> Some("Enabled")
                [] OTHER -> Some("Suspended")]

\* strftime("%Y-%m-%d") (line 94)
strftime(d) ==
  LET two(n) == (IF n < 10 THEN "0" ELSE "") \o ToString(n)
  IN ToString(d.year) \o "-" \o two(d.month) \o "-" \o two(d.day)

\* What get_metric_data can do: no data point in the lookback window, one
\* data point (2 KB), a ClientError, any other exception.
MetricResponses ==
  { [kind |-> "ok", Code |-> "", Values |-> <<>>],
    [kind |-> "ok", Code |-> "", Values |-> << <<0, 2>> >>],
    [kind |-> "ClientError", Code |-> "AccessDenied", Values |-> <<>>],
    [kind |-> "Exception", Code |-> "", Values |-> <<>>] }

\* What get_cost_and_usage can do: one result ($1.2346), no result at all,
\* a ValidationException, another ClientError, any other exception.
CostResponses ==
  { [kind |-> "ok", Code |-> "", ResultsByTime |-> <<12346>>],
    [kind |-> "ok", Code |-> "", ResultsByTime |-> <<>>],
    [kind |-> "ClientError", Code |-> "ValidationException", ResultsByTime |-> <<>>],
    [kind |-> "ClientError", Code |-> "AccessDeniedException", ResultsByTime |-> <<>>],
    [kind |-> "Exception", Code |-> "", ResultsByTime |-> <<>>] }

\* What get_bucket_location can do for bucket b: report its
\* LocationConstraint, or raise.
LocationResponses(b) ==
  { [kind |-> "ok", LocationConstraint |-> b.LocationConstraint],
    [kind |-> "ClientError", LocationConstraint |-> None] }

\* What get_bucket_versioning can do for bucket b: a response with its
\* 'Status' (without the key when versioning was never set), or raise.
VersioningResponses(b) ==
  { [kind |-> "ok", Status |-> b.Status],
    [kind |-> "ClientError", Status |-> None] }

\* What get_bucket_lifecycle_configuration can do.
LifecycleResponses ==
  { [kind |-> "ok", Code |-> ""],
    [kind |-> "ClientError", Code |-> "NoSuchLifecycleConfiguration"],
    [kind |-> "ClientError", Code |-> "AccessDenied"],
    [kind |-> "Exception", Code |-> ""] }

\* The analysis time datetime.now(timezone.utc) of line 90, in hours.
AnalysisTimes == {1000}

\* Object keys as character sequences.
KeyFileTXT == <<"a", "/", "b", "/", "f", ".", "T", "X", "T">>
KeyTarGz == <<"c", ".", "t", "a", "r", ".", "g", "z">>
KeyNoExt == <<"n", "o", "e", "x", "t">>

Obj(key, t) == [Key |-> key, LastModified |-> t]
Contents(objs) == [kind |-> "Contents", Contents |-> objs]
NoContents == [kind |-> "NoContents", Contents |-> <<>>]
PageError(kind) == [kind |-> kind, Contents |-> <<>>]

\* The listings the collector meets: an empty bucket; two objects modified
\* 5 days ago; one object modified 30 days less an hour ago, exactly 30 days
\* ago, and in the future; a ClientError on the first page, and after a page
\* of objects; another exception after a page of objects.
MainListings ==
  { <<NoContents>>,
    <<Contents(<<Obj(KeyFileTXT, 880), Obj(KeyTarGz, 880)>>)>>,
    <<Contents(<<Obj(KeyNoExt, 281)>>)>>,
    <<Contents(<<Obj(KeyNoExt, 280)>>)>>,
    <<Contents(<<Obj(KeyNoExt, 1001)>>)>>,
    <<PageError("ClientError")>>,
    <<Contents(<<Obj(KeyTarGz, 880)>>), PageError("ClientError")>>,
    <<Contents(<<Obj(KeyTarGz, 880)>>), PageError("Exception")>> }

\* get_bucket_location(...)['LocationConstraint'] or 'us-east-1' (line 81)
bucket_location(resp) ==
  IF resp.kind # "ok" THEN [raised |-> TRUE, value |-> ""]
  ELSE [raised |-> FALSE,
        value |-> IF resp.LocationConstraint = None THEN "us-east-1"
                  ELSE resp.LocationConstraint[1]]

\* get_bucket_versioning(...).get('Status', 'Not Enabled') (line 82)
bucket_versioning(resp) ==
  IF resp.kind # "ok" THEN [raised |-> TRUE, value |-> ""]
  ELSE [raised |-> FALSE,
        value |-> IF resp.Status = None THEN "Not Enabled" ELSE resp.Status[1]]

\* Mutant of bucket_deletion_policy: the "else: raise" of line 87 is
\* missing, every ClientError counts as "no lifecycle configuration".
bucket_deletion_policy_Swallow(resp) ==
  IF resp.kind = "ok" THEN [raised |-> FALSE, value |-> "Enabled"]
  ELSE IF resp.kind = "ClientError"
       THEN [raised |-> FALSE, value |-> "Not Enabled"]
  ELSE [raised |-> TRUE, value |-> ""]

\* The lifecycle try block (lines 83-87).
bucket_deletion_policy(resp) ==
  IF resp.kind = "ok" THEN [raised |-> FALSE, value |-> "Enabled"]
  ELSE IF resp.kind = "ClientError" /\ resp.Code = "NoSuchLifecycleConfiguration"
       THEN [raised |-> FALSE, value |-> "Not Enabled"]
  ELSE [raised |-> TRUE, value |-> ""]

\* ------------------------------------------------ get_s3_insights: state

VARIABLES
  pc,            \* where get_s3_insights stands
  buckets,       \* response['Buckets'] of list_buckets
  idx,           \* the index in buckets of the bucket being analyzed
  cur,           \* the loop body's locals for that bucket
  obs,           \* what each service call of that bucket did (history)
  buckets_data,  \* the list of records (the Table)
  skipped,       \* the bucket names the handler of line 98 has seen (history)
  reports,       \* the report files written so far
  listing,       \* analyze_objects alone: the pages it is given
  scan,          \* analyze_objects alone: what it handed back
  byte_count,    \* format_bytes alone: its argument
  formatted      \* format_bytes alone: [text, num, unit] of its result

vars ==
  <<pc, buckets, idx, cur, obs, buckets_data, skipped, reports,
    listing, scan, byte_count, formatted>>

scanVars == <<listing, scan>>
fmtVars == <<byte_count, formatted>>
mainVars == <<pc, buckets, idx, cur, obs, buckets_data, skipped, reports>>

\* The locals of one loop iteration before line 78 assigns any.
CurStart ==
  [total_storage |-> "", estimated_cost |-> "", location |-> "",
   versioning_status |-> "", deletion_policy |-> "",
   first_record_date |-> None, last_record_date |-> None,
   folder_structure |-> {}, doc_types |-> <<>>, is_working |-> ""]

\* No call made yet for the bucket ("-"), no exception at any stage.
ObsStart ==
  [storage |-> "-", cost |-> "-", lifecycle |-> "-", listing |-> "-",
   scanned |-> 0, now |-> None, failed |-> "none"]

Idle ==
  /\ listing = <<>>
  /\ scan = None
  /\ byte_count = None
  /\ formatted = None

\* get_s3_insights is not running.
MainIdle ==
  /\ pc = "idle"
  /\ buckets = <<>>
  /\ idx = 0
  /\ cur = CurStart
  /\ obs = ObsStart
  /\ buckets_data = <<>>
  /\ skipped = {}
  /\ reports = <<>>

Init ==
  /\ pc = "start"
  /\ buckets = <<>>
  /\ idx = 0
  /\ cur = CurStart
  /\ obs = ObsStart
  /\ buckets_data = <<>>
  /\ skipped = {}
  /\ reports = <<>>
  /\ Idle

\* ---------------------------------------------- get_s3_insights: actions

\* Lines 61-72: the clients and list_buckets. Any exception is reported and
\* the function returns; otherwise the loop starts on the listed buckets.
Setup ==
  /\ pc = "start"
  /\ \/ /\ pc' = "done"
        /\ UNCHANGED buckets
     \/ \E n \in 0..MaxBuckets :
          /\ buckets' = [i \in 1..n |-> Bucket(i)]
          /\ pc' = "loop"
  /\ UNCHANGED <<idx, cur, obs, buckets_data, skipped, reports>>
  /\ UNCHANGED <<scanVars, fmtVars>>

\* Line 73: the for statement takes the next bucket, or ends the loop.
LoopNext ==
  /\ pc = "loop"
  /\ IF idx < Len(buckets)
     THEN /\ idx' = idx + 1
          /\ pc' = "storage"
     ELSE /\ idx' = idx
          /\ pc' = "check"
  /\ cur' = CurStart
  /\ obs' = ObsStart
  /\ UNCHANGED <<buckets, buckets_data, skipped, reports>>
  /\ UNCHANGED <<scanVars, fmtVars>>

\* An exception leaves the try block (lines 76-97) at stage: control goes to
\* the handler of line 98.
Raise(stage, o) ==
  /\ pc' = "handler"
  /\ cur' = cur
  /\ obs' = [o EXCEPT !.failed = stage]

StorageOutcome(resp) ==
  IF resp.kind # "ok" THEN resp.kind
  ELSE IF resp.Values = <<>> THEN "nodata" ELSE "data"

\* Line 78: total_storage = get_bucket_storage_info(...)
GetStorage ==
  /\ pc = "storage"
  /\ \E resp \in MetricResponses :
       LET r == get_bucket_storage_info(resp)
           o == [obs EXCEPT !.storage = StorageOutcome(resp)]
       IN IF r.raised THEN Raise("storage", o)
          ELSE /\ pc' = "cost"
               /\ cur' = [cur EXCEPT !.total_storage = r.value]
               /\ obs' = o
  /\ UNCHANGED <<buckets, idx, buckets_data, skipped, reports>>
  /\ UNCHANGED <<scanVars, fmtVars>>

CostOutcome(resp) ==
  IF resp.kind # "ok" THEN resp.kind
  ELSE IF resp.ResultsByTime = <<>> THEN "noresult" ELSE "data"

\* Line 79: estimated_cost = get_bucket_cost(...)
GetCost ==
  /\ pc = "cost"
  /\ \E resp \in CostResponses :
       LET r == get_bucket_cost(resp)
           o == [obs EXCEPT !.cost = CostOutcome(resp)]
       IN IF r.raised THEN Raise("cost", o)
          ELSE /\ pc' = "location"
               /\ cur' = [cur EXCEPT !.estimated_cost = r.value]
               /\ obs' = o
  /\ UNCHANGED <<buckets, idx, buckets_data, skipped, reports>>
  /\ UNCHANGED <<scanVars, fmtVars>>

\* Line 81: location = ...
GetLocation ==
  /\ pc = "location"
  /\ \E resp \in LocationResponses(buckets[idx]) :
       LET r == bucket_location(resp)
       IN IF r.raised THEN Raise("location", obs)
          ELSE /\ pc' = "versioning"
               /\ cur' = [cur EXCEPT !.location = r.value]
               /\ obs' = obs
  /\ UNCHANGED <<buckets, idx, buckets_data, skipped, reports>>
  /\ UNCHANGED <<scanVars, fmtVars>>

\* Line 82: versioning_status = ...
GetVersioning ==
  /\ pc = "versioning"
  /\ \E resp \in VersioningResponses(buckets[idx]) :
       LET r == bucket_versioning(resp)
       IN IF r.raised THEN Raise("versioning", obs)
          ELSE /\ pc' = "lifecycle"
               /\ cur' = [cur EXCEPT !.versioning_status = r.value]
               /\ obs' = obs
  /\ UNCHANGED <<buckets, idx, buckets_data, skipped, reports>>
  /\ UNCHANGED <<scanVars, fmtVars>>

LifecycleOutcome(resp) ==
  IF resp.kind = "ClientError" /\ resp.Code = "NoSuchLifecycleConfiguration"
  THEN resp.Code ELSE resp.kind

\* Lines 83-87: deletion_policy = ...
GetLifecycle ==
  /\ pc = "lifecycle"
  /\ \E resp \in LifecycleResponses :
       LET r == bucket_deletion_policy(resp)
           o == [obs EXCEPT !.lifecycle = LifecycleOutcome(resp)]
       IN IF r.raised THEN Raise("lifecycle", o)
          ELSE /\ pc' = "analyze"
               /\ cur' = [cur EXCEPT !.deletion_policy = r.value]
               /\ obs' = o
  /\ UNCHANGED <<buckets, idx, buckets_data, skipped, reports>>
  /\ UNCHANGED <<scanVars, fmtVars>>

\* Lines 89-90: the object analysis and is_working.
Analyze ==
  /\ pc = "analyze"
  /\ \E pages \in MainListings, now \in AnalysisTimes :
       LET r == analyze_objects(pages)
           o == [obs EXCEPT !.listing = IF r.error = "none" THEN "ok" ELSE r.error,
                            !.scanned = Len(r.inspected),
                            !.now = Some(now)]
       IN IF r.raised THEN Raise("analyze", o)
          ELSE /\ pc' = "append"
               /\ cur' = [cur EXCEPT
                            !.first_record_date = r.first_record_date,
                            !.last_record_date = r.last_record_date,
                            !.folder_structure = r.folder_structure,
                            !.doc_types = r.doc_types,
                            !.is_working = is_working_bucket(r.last_record_date, now)]
               /\ obs' = o
  /\ UNCHANGED <<buckets, idx, buckets_data, skipped, reports>>
  /\ UNCHANGED <<scanVars, fmtVars>>

\* The dict of lines 93-96 for bucket b and the locals c.
Record(b, c) ==
  ("Account Profile" :> aws_profile) @@ ("Bucket Name" :> b.Name) @@
  ("Total Storage" :> c.total_storage) @@
  ("Est. Cost (Last 30d)" :> c.estimated_cost) @@
  ("Creation Date" :> strftime(b.CreationDate)) @@
  ("Region" :> c.location) @@ ("Versioning" :> c.versioning_status) @@
  ("Deletion Policy" :> c.deletion_policy) @@
  ("Is Working Bucket" :> c.is_working)

\* Lines 92-97: buckets_data.append({...})
AppendRecord ==
  /\ pc = "append"
  /\ buckets_data' = Append(buckets_data, Record(buckets[idx], cur))
  /\ pc' = "loop"
  /\ UNCHANGED <<buckets, idx, cur, obs, skipped, reports>>
  /\ UNCHANGED <<scanVars, fmtVars>>

\* Mutant of Handler: the try of line 76 sits around the loop instead of in
\* it, so the first exception ends the loop.
Handler_Abort ==
  /\ pc = "handler"
  /\ skipped' = skipped \cup {buckets[idx].Name}
  /\ pc' = "check"
  /\ UNCHANGED <<buckets, idx, cur, obs, buckets_data, reports>>
  /\ UNCHANGED <<scanVars, fmtVars>>

\* Lines 98-99: except Exception: the error is reported, the loop goes on.
Handler ==
  /\ pc = "handler"
  /\ skipped' = skipped \cup {buckets[idx].Name}
  /\ pc' = "loop"
  /\ UNCHANGED <<buckets, idx, cur, obs, buckets_data, reports>>
  /\ UNCHANGED <<scanVars, fmtVars>>

\* Mutant of CheckEmpty: the guard of line 101 is missing.
CheckEmpty_NoGuard ==
  /\ pc = "check"
  /\ pc' = "excel"
  /\ UNCHANGED <<buckets, idx, cur, obs, buckets_data, skipped, reports>>
  /\ UNCHANGED <<scanVars, fmtVars>>

\* Lines 101-104: no record, no report.
CheckEmpty ==
  /\ pc = "check"
  /\ pc' = IF buckets_data = <<>> THEN "done" ELSE "excel"
  /\ UNCHANGED <<buckets, idx, cur, obs, buckets_data, skipped, reports>>
  /\ UNCHANGED <<scanVars, fmtVars>>

\* ------------------------------------------------------------- reports

\* sorted() over the region names the collector can produce.
RegionOrder == <<"eu-west-1", "us-east-1">>

\* sorted(df['Region'].unique()) (lines 144, 185)
SortedRegions(df) ==
  SelectSeq(RegionOrder, LAMBDA g : \E i \in 1..Len(df) : df[i]["Region"] = g)

\* df.groupby('Region')['Bucket Name'].count() (lines 140, 168)
RegionSummary(df) ==
  [g \in {df[i]["Region"] : i \in 1..Len(df)} |->
     Cardinality({i \in 1..Len(df) : df[i]["Region"] = g})]

\* df[df['Region'] == region] (lines 146, 187)
RegionRows(df, region) == SelectSeq(df, LAMBDA row : row["Region"] = region)

\* region_df.drop(columns=['Account Profile', 'Region']) (line 192)
DropColumns(row) ==
  [f \in DOMAIN row \ {"Account Profile", "Region"} |-> row[f]]

\* generate_excel_report (lines 133-150): the Summary sheet and one sheet
\* per region.
ExcelReport(df) ==
  [kind |-> "xlsx", summary |-> RegionSummary(df),
   sections |-> [k \in 1..Len(SortedRegions(df)) |->
                  [region |-> SortedRegions(df)[k],
                   rows |-> RegionRows(df, SortedRegions(df)[k])]]]

\* generate_pdf_report (lines 152-206): the summary table and one section
\* per region.
PdfReport(df) ==
  [kind |-> "pdf", summary |-> RegionSummary(df),
   sections |-> [k \in 1..Len(SortedRegions(df)) |->
                  [region |-> SortedRegions(df)[k],
                   rows |-> [j \in 1..Len(RegionRows(df, SortedRegions(df)[k])) |->
                              DropColumns(RegionRows(df, SortedRegions(df)[k])[j])]]]]

\* Line 107: generate_excel_report(df, aws_profile). Writing the file may
\* raise (nothing creates the reports directory); the exception ends the run.
GenerateExcel ==
  /\ pc = "excel"
  /\ \/ /\ reports' = Append(reports, ExcelReport(buckets_data))
        /\ pc' = "pdf"
     \/ /\ reports' = reports
        /\ pc' = "done"
  /\ UNCHANGED <<buckets, idx, cur, obs, buckets_data, skipped>>
  /\ UNCHANGED <<scanVars, fmtVars>>

\* Line 108: generate_pdf_report(df, aws_profile)
GeneratePdf ==
  /\ pc = "pdf"
  /\ \/ reports' = Append(reports, PdfReport(buckets_data))
     \/ reports' = reports
  /\ pc' = "done"
  /\ UNCHANGED <<buckets, idx, cur, obs, buckets_data, skipped>>
  /\ UNCHANGED <<scanVars, fmtVars>>

Next ==
  \/ Setup
  \/ LoopNext
  \/ GetStorage
  \/ GetCost
  \/ GetLocation
  \/ GetVersioning
  \/ GetLifecycle
  \/ Analyze
  \/ AppendRecord
  \/ Handler
  \/ CheckEmpty
  \/ GenerateExcel
  \/ GeneratePdf

Spec == Init /\ [][Next]_vars

\* ------------------------------------------------ analyze_objects alone

\* The sequences over S of length lo to hi.
SeqsOf(S, lo, hi) == UNION {[1..k -> S] : k \in lo..hi}

\* The objects of the page sweep: the keys of the documented scenario, with
\* distinct modification times.
ScanObjects ==
  {Obj(KeyFileTXT, 880), Obj(KeyTarGz, 900), Obj(KeyNoExt, 280)}

\* The pages of the page sweep: up to MaxPageLen objects, a page without
\* 'Contents', or an exception in place of the page.
ScanPageSet ==
  {Contents(objs) : objs \in SeqsOf(ScanObjects, 1, MaxPageLen)}
    \cup {NoContents, PageError("ClientError"), PageError("Exception")}

\* The characters of the key sweep, and its keys.
KeyChars == {"a", "A", ".", "/"}
SweepKeys == SeqsOf(KeyChars, 1, MaxKeyLen)

\* The listings analyze_objects is run on: every listing of up to MaxPages
\* pages of the page sweep, and every one-page listing of one or two keys of
\* the key sweep.
ScanListings ==
  SeqsOf(ScanPageSet, 0, MaxPages)
    \cup {<<Contents(<<Obj(k, 880)>>)>> : k \in SweepKeys}
    \cup {<<Contents(<<Obj(k[1], 880), Obj(k[2], 880)>>)>> :
            k \in SweepKeys \X SweepKeys}

InitScan ==
  /\ MainIdle
  /\ listing \in ScanListings
  /\ scan = None
  /\ byte_count = None
  /\ formatted = None

\* One call of analyze_objects (lines 110-129) on the listing.
RunScan ==
  /\ scan = None
  /\ scan' = Some(analyze_objects(listing))
  /\ UNCHANGED <<listing, mainVars, fmtVars>>

NextScan == RunScan

SpecScan == InitScan /\ [][NextScan]_vars

\* --------------------------------------------------- format_bytes alone

\* The base-1024 digits byte counts are made of: the ends of the range, the
\* middle, and a digit whose hundredths fall on a rounding tie.
DigitSet == {0, 1, 128, 512, 1023}

\* The byte counts format_bytes is run on: digit sequences without a leading
\* zero whose non-zero digits span at most 5 places, so that the value is
\* one a float holds exactly.
ByteCounts ==
  {ds \in SeqsOf(DigitSet, 1, MaxDigits) :
     /\ Len(ds) > 1 => ds[Len(ds)] # 0
     /\ \A i, j \in 1..Len(ds) : (ds[i] # 0 /\ ds[j] # 0) => j - i <= 4}

InitFmt ==
  /\ MainIdle
  /\ listing = <<>>
  /\ scan = None
  /\ byte_count \in {None} \cup {Some(ds) : ds \in ByteCounts}
  /\ formatted = None

\* One call of format_bytes (lines 17-23): the returned text, with the
\* numeric part and the unit it renders.
RunFormat ==
  /\ formatted = None
  /\ formatted' =
       Some(IF byte_count = None
            THEN [text |-> format_bytes(None), num |-> [units |-> 0, cents |-> 0],
                  unit |-> "B"]
            ELSE [text |-> format_bytes(byte_count[1]),
                  num |-> format_parts(byte_count[1]).num,
                  unit |-> format_parts(byte_count[1]).unit])
  /\ UNCHANGED <<byte_count, mainVars, scanVars>>

NextFmt == RunFormat

SpecFmt == InitFmt /\ [][NextFmt]_vars

\* =============================================================== claims

\* The bucket names of the records of df, in order.
Names(df) == [i \in 1..Len(df) |-> df[i]["Bucket Name"]]

\* The loop body has finished with bucket idx: its record was appended, or
\* the handler has skipped it.
BucketDone == pc = "loop" /\ idx >= 1

\* The loop body has appended the record of bucket idx.
Appended == BucketDone /\ obs.failed = "none"

\* The record appended last.
LastRecord == buckets_data[Len(buckets_data)]

\* The last record is the one of bucket idx.
LastIsCurrent ==
  /\ buckets_data # <<>>
  /\ LastRecord["Bucket Name"] = buckets[idx].Name

\* The columns of a record.
Columns ==
  {"Account Profile", "Bucket Name", "Total Storage", "Est. Cost (Last 30d)",
   "Creation Date", "Region", "Versioning", "Deletion Policy",
   "Is Working Bucket"}

\* The storage lookup of the current bucket has returned.
PastStorage == obs.storage # "-" /\ obs.failed # "storage"

\* The cost lookup of the current bucket has returned.
PastCost == obs.cost # "-" /\ obs.failed # "cost"

\* ---- C1

FinishedCount == IF pc \in {"loop", "check", "excel", "pdf", "done"} THEN idx ELSE idx - 1

\* C2: a bucket whose collection raised is left out of the Table and the run
\* goes on: at every moment the Table holds, in enumeration order, exactly
\* one record for each finished bucket the handler has not skipped, and once
\* the loop is over every enumerated bucket has been processed.
C2_SkipOnlyFailedBucket ==
  /\ idx <= Len(buckets)
  /\ Names(buckets_data) =
       SelectSeq([i \in 1..FinishedCount |-> buckets[i].Name],
                 LAMBDA n : n \notin skipped)
  /\ skipped \subseteq {buckets[i].Name : i \in 1..idx}
  /\ pc = "handler" => obs.failed # "none"
  /\ (BucketDone /\ obs.failed # "none") => buckets[idx].Name \in skipped
  /\ Appended => buckets[idx].Name \notin skipped
  /\ pc \in {"check", "excel", "pdf", "done"} => idx = Len(buckets)

\* The first of two buckets failed, the second was still processed and is
\* the only record.
C2_Witness ==
  /\ pc = "check"
  /\ Len(buckets) = 2
  /\ skipped = {buckets[1].Name}
  /\ Names(buckets_data) = <<buckets[2].Name>>

\* ---- C3

\* C3: a report generator runs, and a report file exists, only when the
\* Table holds at least one record; a run that ends with an empty Table
\* (failed setup, no bucket, every collection failed) has written no report.
C3_NoReportWithoutRecords ==
  /\ (pc \in {"excel", "pdf"} \/ reports # <<>>) => buckets_data # <<>>
  /\ (pc = "done" /\ buckets_data = <<>>) => reports = <<>>

\* Two buckets were enumerated, both collections failed, the run is over and
\* no report was written.
C3_Witness ==
  /\ pc = "done"
  /\ Len(buckets) = 2
  /\ Cardinality(skipped) = 2
  /\ reports = <<>>

\* ---- C4

\* C4 as stated: any failure of the metrics call or of the billing call, of
\* whatever kind (an exception of any type, a response without the expected
\* data), leaves the bucket in the run with that field "N/A".
C4_AsStated ==
  /\ obs.storage \in {"ClientError", "Exception", "nodata"} =>
       (obs.failed # "storage" /\ cur.total_storage = "N/A")
  /\ obs.cost \in {"ClientError", "Exception", "noresult"} =>
       (obs.failed # "cost" /\ cur.estimated_cost = "N/A")

\* C4 (amended): a ClientError of the metrics call or of the billing call
\* degrades only that field to "N/A": the call returns, the lookups after it
\* are made (each until one of them raises), and the record appended for the
\* bucket has every column, "N/A" in the degraded one and the looked-up
\* values in the others.
C4_ClientErrorDegradesField ==
  /\ obs.storage = "ClientError" =>
       /\ obs.failed # "storage"
       /\ cur.total_storage = "N/A"
       /\ pc # "cost" => obs.cost # "-"
  /\ obs.cost = "ClientError" =>
       /\ obs.failed # "cost"
       /\ cur.estimated_cost = "N/A"
       /\ pc \notin {"location", "versioning", "lifecycle"} => obs.lifecycle # "-"
          \/ obs.failed \in {"location", "versioning"}
  /\ (Appended /\ (obs.storage = "ClientError" \/ obs.cost = "ClientError")) =>
       /\ LastIsCurrent
       /\ DOMAIN LastRecord = Columns
       /\ obs.lifecycle # "-" /\ obs.listing # "-"
       /\ LastRecord["Total Storage"] =
            (IF obs.storage = "ClientError" THEN "N/A" ELSE cur.total_storage)
       /\ LastRecord["Est. Cost (Last 30d)"] =
            (IF obs.cost = "ClientError" THEN "N/A" ELSE cur.estimated_cost)
       /\ obs.storage = "data" => LastRecord["Total Storage"] = "2.00 KB"
       /\ obs.cost = "data" => LastRecord["Est. Cost (Last 30d)"] = "$1.23"
       /\ LastRecord["Region"] \in {"us-east-1", "eu-west-1"}
       /\ LastRecord["Versioning"] \in {"Enabled", "Suspended", "Not Enabled"}
       /\ LastRecord["Deletion Policy"] \in {"Enabled", "Not Enabled"}
       /\ LastRecord["Is Working Bucket"] \in {"Yes", "No"}

\* A bucket whose billing call raised a ClientError while its metrics call
\* answered has its record, with the cost "N/A" and the size looked up.
C4_Witness ==
  /\ Appended
  /\ obs.cost = "ClientError"
  /\ obs.storage = "data"
  /\ LastIsCurrent
  /\ LastRecord["Est. Cost (Last 30d)"] = "N/A"
  /\ LastRecord["Total Storage"] = "2.00 KB"

\* ---- C5

\* The object analysis handed back the empty summary.
EmptySummary ==
  /\ cur.first_record_date = None
  /\ cur.last_record_date = None
  /\ cur.folder_structure = {}
  /\ cur.doc_types = <<>>

\* C5 as stated: any error raised while listing, at any page, ends only the
\* object analysis: empty summary, the record is added, Is Working Bucket is
\* "No".
C5_AsStated ==
  obs.listing \in {"ClientError", "Exception"} =>
    /\ obs.failed = "none"
    /\ EmptySummary
    /\ cur.is_working = "No"
    /\ BucketDone => (LastIsCurrent /\ LastRecord["Is Working Bucket"] = "No")

\* C5 (amended): a ClientError raised while listing, at any page, also after
\* objects were scanned, ends only the object analysis: analyze_objects hands
\* back the empty summary, the record is added, and its Is Working Bucket is
\* "No".
C5_ListingClientError ==
  obs.listing = "ClientError" =>
    /\ obs.failed = "none"
    /\ pc \in {"append", "loop"}
    /\ EmptySummary
    /\ cur.is_working = "No"
    /\ BucketDone => (LastIsCurrent /\ LastRecord["Is Working Bucket"] = "No")

\* A listing raised a ClientError after an object had been scanned; the
\* bucket has its record, with "No".
C5_Witness ==
  /\ Appended
  /\ obs.listing = "ClientError"
  /\ obs.scanned >= 1
  /\ LastIsCurrent
  /\ LastRecord["Is Working Bucket"] = "No"

\* ---- C7

\* C7 as stated: a successful lifecycle query gives "Enabled"; a
\* NoSuchLifecycleConfiguration error gives "Not Enabled" and the record is
\* still added; any other error leaves the bucket without a record, the
\* object sampling never started.
C7_AsStated ==
  /\ obs.lifecycle = "ok" => cur.deletion_policy = "Enabled"
  /\ obs.lifecycle = "NoSuchLifecycleConfiguration" =>
       /\ cur.deletion_policy = "Not Enabled"
       /\ BucketDone => (LastIsCurrent /\ LastRecord["Deletion Policy"] = "Not Enabled")
  /\ obs.lifecycle \in {"ClientError", "Exception"} =>
       /\ obs.failed = "lifecycle"
       /\ obs.listing = "-"
       /\ BucketDone => buckets[idx].Name \notin {Names(buckets_data)[i] : i \in 1..Len(buckets_data)}

\* C7 (amended): a successful lifecycle query gives "Enabled"; a
\* NoSuchLifecycleConfiguration error gives "Not Enabled" without skipping
\* the bucket: the object sampling is started, and the record is added, with
\* that value, unless the sampling raises an exception other than
\* ClientError; any other error of the query leaves the bucket without a
\* record, the object sampling never started.
C7_LifecycleMapping ==
  /\ obs.lifecycle = "ok" =>
       /\ obs.failed # "lifecycle"
       /\ cur.deletion_policy = "Enabled"
       /\ Appended => (LastIsCurrent /\ LastRecord["Deletion Policy"] = "Enabled")
  /\ obs.lifecycle = "NoSuchLifecycleConfiguration" =>
       /\ obs.failed # "lifecycle"
       /\ cur.deletion_policy = "Not Enabled"
       /\ pc # "analyze" => obs.listing # "-"
       /\ (BucketDone /\ obs.listing # "Exception") =>
            (Appended /\ LastIsCurrent /\ LastRecord["Deletion Policy"] = "Not Enabled")
  /\ obs.lifecycle \in {"ClientError", "Exception"} =>
       /\ obs.failed = "lifecycle"
       /\ pc \in {"handler", "loop"}
       /\ obs.listing = "-"
       /\ BucketDone => buckets[idx].Name \notin {Names(buckets_data)[i] : i \in 1..Len(buckets_data)}

\* A bucket without a lifecycle configuration has its record, with
\* "Not Enabled".
C7_Witness ==
  /\ Appended
  /\ obs.lifecycle = "NoSuchLifecycleConfiguration"
  /\ LastIsCurrent
  /\ LastRecord["Deletion Policy"] = "Not Enabled"

\* ---- C8

\* 30 days in hours.
WindowHours == 30 * 24

\* C8: the record's Is Working Bucket is "Yes" exactly when the analysis
\* found a last_seen timestamp and the analysis time is less than 30 days
\* after it, "No" otherwise (no object, failed listing, last_seen 30 days old
\* or older).
C8_WorkingIffRecent ==
  (pc = "append" \/ Appended) =>
    /\ cur.is_working =
         (IF /\ cur.last_record_date # None
             /\ obs.now[1] - cur.last_record_date[1] < WindowHours
          THEN "Yes" ELSE "No")
    /\ (obs.listing = "ClientError" \/ obs.scanned = 0) => cur.is_working = "No"
    /\ Appended => (LastIsCurrent /\ LastRecord["Is Working Bucket"] = cur.is_working)

\* A bucket last modified 30 days less one hour before the analysis has its
\* record, with "Yes".
C8_Witness ==
  /\ Appended
  /\ cur.last_record_date # None
  /\ obs.now[1] - cur.last_record_date[1] = WindowHours - 1
  /\ LastIsCurrent
  /\ LastRecord["Is Working Bucket"] = "Yes"

\* ---- C6

\* The objects the listing holds before its first exception, in listing
\* order, from page p on.
RECURSIVE Listed(_, _)
Listed(pages, p) ==
  IF p > Len(pages) \/ pages[p].kind \in {"ClientError", "Exception"} THEN <<>>
  ELSE pages[p].Contents \o Listed(pages, p + 1)

\* No page of the listing raises.
NoPageError(pages) ==
  \A p \in 1..Len(pages) : pages[p].kind \notin {"ClientError", "Exception"}

\* C6: however the objects are spread over the pages, analyze_objects
\* inspects exactly the first min(N, sample_size) of the N objects listed,
\* in listing order: never more than sample_size, all N when N is at most
\* sample_size, and a listing that raises nothing is analyzed without an
\* error.
C6_SampleCap ==
  scan # None =>
    LET r == scan[1]
        all == Listed(listing, 1)
    IN /\ Len(r.inspected) <= sample_size
       /\ r.inspected = SubSeq(all, 1, Min(Len(all), sample_size))
       /\ NoPageError(listing) => (~r.raised /\ r.error = "none")

\* A listing of sample_size + 1 objects on several pages was analyzed:
\* sample_size objects were inspected.
C6_Witness ==
  /\ scan # None
  /\ NoPageError(listing)
  /\ Len(listing) >= 2
  /\ Len(Listed(listing, 1)) = sample_size + 1
  /\ Len(scan[1].inspected) = sample_size

\* ---- C10

\* The greatest element of a non-empty set of integers.
Greatest(S) == CHOOSE x \in S : \A y \in S : y <= x

\* The extension the claim gives a key: None when the base filename (what
\* follows the last "/") has no ".", else the lowercased suffix after the
\* final "." of the base filename.
ClaimedExtension(key) ==
  LET slashes == {i \in 1..Len(key) : key[i] = "/"}
      start == IF slashes = {} THEN 1 ELSE Greatest(slashes) + 1
      dots == {i \in start..Len(key) : key[i] = "."}
  IN IF dots = {} THEN None
     ELSE Some(Lower(SubSeq(key, Greatest(dots) + 1, Len(key))))

\* C10: after an analysis that no exception cut short, the histogram has
\* one entry per extension of the scanned keys, extension taken from the
\* base filename and lowercased, and the entry counts the scanned keys with
\* that extension; keys whose base filename has no "." add nothing.
C10_ExtensionHistogram ==
  (scan # None /\ scan[1].error = "none") =>
    LET r == scan[1]
        n == Len(r.inspected)
        ext(i) == ClaimedExtension(r.inspected[i].Key)
        exts == {ext(i)[1] : i \in {j \in 1..n : ext(j) # None}}
    IN /\ DOMAIN r.doc_types = exts
       /\ \A e \in exts :
            r.doc_types[e] = Cardinality({i \in 1..n : ext(i) = Some(e)})

\* The keys a/b/f.TXT, c.tar.gz and noext were scanned: the histogram is
\* {txt: 1, gz: 1}.
C10_Witness ==
  /\ scan # None
  /\ scan[1].error = "none"
  /\ [i \in 1..Len(scan[1].inspected) |-> scan[1].inspected[i].Key]
       = <<KeyFileTXT, KeyTarGz, KeyNoExt>>
  /\ scan[1].doc_types = (<<"t", "x", "t">> :> 1) @@ (<<"g", "z">> :> 1)

\* ---- C9

\* The highest non-zero digit of a byte count, 1 for zero.
TopDigit(ds) ==
  IF \A i \in 1..Len(ds) : ds[i] = 0 THEN 1
  ELSE Greatest({i \in 1..Len(ds) : ds[i] # 0})

\* C9 as stated: format_bytes(None) is "0.0 B"; for a byte count b >= 0 the
\* unit is the largest power of 1024 not exceeding b, capped at TB, and the
\* numeric part rendered lies in [0, 1024) whenever the unit is not TB.
C9_AsStated ==
  formatted # None =>
    IF byte_count = None THEN formatted[1].text = "0.0 B"
    ELSE /\ formatted[1].unit = power_labels[Min(TopDigit(byte_count[1]), Len(power_labels))]
         /\ formatted[1].unit # "TB" =>
              (formatted[1].num.units >= 0 /\ formatted[1].num.units < power)

====
